---------------------------- MODULE Spec2Model ----------------------------
(***************************************************************************)
(* Model of elasticdl/python/master/servicer.py (class MasterServicer):    *)
(* the gradient accumulator, the quorum-triggered model update, the        *)
(* side-effect hooks and the model read path, as executed by concurrent    *)
(* gRPC handler threads sharing one threading.Lock.                        *)
(*                                                                         *)
(* Numbers are exact rationals <<numerator, denominator>>; a dense tensor  *)
(* is a matrix (sequence of rows); a sparse tensor is a record of indices  *)
(* (0-based row numbers, as in the source) and value rows.                 *)
(***************************************************************************)
EXTENDS Integers, Sequences, FiniteSets, TLC

(***************************************************************************)
(* Bounds of the model                                                     *)
(***************************************************************************)
NumThreads == 2
MaxCalls == 3
GradsToWait == 2
MaxInitVersion == 1

Threads == 1..NumThreads
NoThread == 0

VARIABLES
    model,                    \* self._model: name -> matrix
    version,                  \* self._version
    gradient_sum,             \* self._gradient_sum: name -> matrix
    gradient_sum_indexed,     \* self._gradient_sum_indexed: name -> slices
    edl_embedding_gradients,  \* self._edl_embedding_gradients: layer -> slices
    grad_n,                   \* self._grad_n
    grad_to_wait,             \* self._grad_to_wait
    lock,                     \* self._lock: NoThread or the holder
    store,                    \* the external embedding table: key -> row
    checkpoints,              \* models saved by the checkpoint service
    pc, req, res,             \* per thread: position, request, response
    seen,                     \* per thread: self._version read at line 290
    updated,                  \* per thread: this call committed an update
    calls,                    \* number of calls started
    hist                      \* history: what was reported and accumulated

vars == <<model, version, gradient_sum, gradient_sum_indexed,
          edl_embedding_gradients, grad_n, grad_to_wait, lock, store,
          checkpoints, pc, req, res, seen, updated, calls, hist>>

accumulator == <<gradient_sum, gradient_sum_indexed,
                 edl_embedding_gradients, grad_n>>

(***************************************************************************)
(* Exact arithmetic standing for the float32 arithmetic of numpy           *)
(***************************************************************************)
RECURSIVE GCD(_, _)
GCD(a, b) == IF b = 0 THEN a ELSE GCD(b, a % b)

Abs(x) == IF x < 0 THEN 0 - x ELSE x

Rat(n, d) == LET g == GCD(Abs(n), d) IN <<n \div g, d \div g>>

Q(n) == <<n, 1>>

RatAdd(a, b) == Rat(a[1] * b[2] + b[1] * a[2], a[2] * b[2])

RatSub(a, b) == Rat(a[1] * b[2] - b[1] * a[2], a[2] * b[2])

RatDiv(a, k) == Rat(a[1], a[2] * k)

RowAdd(r, s) == [j \in 1..Len(r) |-> RatAdd(r[j], s[j])]

RowSub(r, s) == [j \in 1..Len(r) |-> RatSub(r[j], s[j])]

MatAdd(a, b) == [i \in 1..Len(a) |-> RowAdd(a[i], b[i])]

MatSub(a, b) == [i \in 1..Len(a) |-> RowSub(a[i], b[i])]

MatDiv(a, k) == [i \in 1..Len(a) |-> [j \in 1..Len(a[i]) |-> RatDiv(a[i][j], k)]]

Shape(a) == <<Len(a), Len(a[1])>>

EmptyMap == [k \in {} |-> 0]

(***************************************************************************)
(* Tensors on the wire and in memory                                       *)
(***************************************************************************)
\* tensor_to_ndarray: a wire tensor with indices becomes tf.IndexedSlices,
\* any other wire tensor becomes an ndarray.
tensor_to_ndarray(v) ==
    IF v.indices # <<>>
    THEN [kind |-> "IndexedSlices", indices |-> v.indices, values |-> v.values]
    ELSE [kind |-> "ndarray", values |-> v.values]

\* ndarray_to_tensor: the wire form of a dense ndarray.
ndarray_to_tensor(a) == [indices |-> <<>>, values |-> a]

\* merge_indexed_slices: concatenation of indices and of value rows.
merge_indexed_slices(a, b) ==
    [kind |-> "IndexedSlices",
     indices |-> a.indices \o b.indices,
     values |-> a.values \o b.values]

RECURSIVE reduce_max(_)
reduce_max(s) ==
    IF Len(s) = 1 THEN s[1]
    ELSE LET m == reduce_max(Tail(s)) IN IF s[1] > m THEN s[1] ELSE m

\* tf.unique: the distinct ids in order of first occurrence.
RECURSIVE unique_ids(_)
unique_ids(s) ==
    IF s = <<>> THEN <<>>
    ELSE LET u == unique_ids(SubSeq(s, 1, Len(s) - 1))
             x == s[Len(s)]
         IN IF \E i \in 1..Len(u) : u[i] = x THEN u ELSE Append(u, x)

\* tf.unique: for each element its 0-based position in unique_ids.
unique_idx(s) ==
    LET u == unique_ids(s)
    IN [j \in 1..Len(s) |-> (CHOOSE i \in 1..Len(u) : u[i] = s[j]) - 1]


(***************************************************************************)
(* Inputs                                                                  *)
(***************************************************************************)
Dense(m) == [indices |-> <<>>, values |-> m]

Sparse(ids, rows) == [indices |-> ids, values |-> rows]

\* The variables a constructor (init_var or checkpoint) or a worker's
\* ReportVariable supplies: "w" of shape (1,1), "emb" of shape (2,1).
InitVars ==
    ("w" :> <<<<Q(10)>>>>) @@ ("emb" :> << <<Q(10)>>, <<Q(10)>> >>)

\* Gradient maps a worker may report whose keys all pass the sanity check
\* of an initialized model.
ValidGradients ==
    { "w" :> Dense(<<<<Q(1)>>>>),
      "w" :> Dense(<<<<Q(3)>>>>),
      "emb" :> Sparse(<<1, 1>>, << <<Q(1)>>, <<Q(2)>> >>),
      "edl" :> Sparse(<<0>>, <<<<Q(1)>>>>) }

\* Gradient maps with one bad key next to a good one.
InvalidGradients ==
    { ("w" :> Dense(<<<<Q(1)>>>>)) @@ ("x" :> Dense(<<<<Q(1)>>>>)),
      ("emb" :> Sparse(<<0>>, <<<<Q(1)>>>>)) @@ ("w" :> Dense(<< <<Q(1)>>, <<Q(1)>> >>)),
      ("w" :> Dense(<<<<Q(1)>>>>)) @@ ("emb" :> Sparse(<<0>>, <<<<Q(1), Q(1)>>>>)),
      ("w" :> Dense(<<<<Q(1)>>>>)) @@ ("emb" :> Sparse(<<0, 2>>, << <<Q(1)>>, <<Q(1)>> >>)) }

Gradients == ValidGradients \cup InvalidGradients

\* Versions a request may carry: one behind, equal to, or one ahead of the
\* current version.
RequestVersions == {v \in {version - 1, version, version + 1} : v >= 0}

\* The (model_version, gradient) pairs of ReportGradient requests.  The
\* handler reads the gradient map only when the version is the current one,
\* so one map stands for all under the other versions.
GradientRequests ==
    {<<version, g>> : g \in Gradients} \cup
    {<<v, "w" :> Dense(<<<<Q(1)>>>>)>> : v \in RequestVersions \ {version}}

Methods == {"MINIMUM", "FIXED"}

\* Keys of the external embedding table that may come into existence.
StoreKeys == {<<"edl", 0>>}

StoreRow == <<Q(5)>>

NoRequest == [op |-> "none"]
NoResponse == [kind |-> "none"]
Error(type) == [kind |-> "error", type |-> type]

(***************************************************************************)
(* History: what the workers reported, kept apart from what the handler    *)
(* accumulates.  hist.k counts the reports taken into the accumulator,     *)
(* hist.n those of the current cycle, hist.sum adds up their dense         *)
(* gradients per key, hist.base is the model before the update in          *)
(* progress, hist.v0 the version after construction.                       *)
(***************************************************************************)
ReportedDense(g) ==
    [k \in {x \in DOMAIN g : g[x].indices = <<>>} |-> g[k].values]

HistAdd(sum, d) ==
    [k \in DOMAIN sum \cup DOMAIN d |->
        IF k \in DOMAIN sum /\ k \in DOMAIN d THEN MatAdd(sum[k], d[k])
        ELSE IF k \in DOMAIN d THEN d[k] ELSE sum[k]]

(***************************************************************************)
(* __init__ and _init_model                                                *)
(***************************************************************************)
Init ==
    /\ grad_to_wait = GradsToWait
    /\ \/ model = EmptyMap /\ version = 0
       \/ model = InitVars /\ version \in {0, MaxInitVersion}
    /\ gradient_sum = EmptyMap
    /\ gradient_sum_indexed = EmptyMap
    /\ edl_embedding_gradients = EmptyMap
    /\ grad_n = 0
    /\ lock = NoThread
    /\ store = EmptyMap
    /\ checkpoints = {}
    /\ pc = [t \in Threads |-> "idle"]
    /\ req = [t \in Threads |-> NoRequest]
    /\ res = [t \in Threads |-> NoResponse]
    /\ seen = [t \in Threads |-> 0]
    /\ updated = [t \in Threads |-> FALSE]
    /\ calls = 0
    /\ hist = [k |-> 0, n |-> 0, sum |-> EmptyMap, aborted |-> FALSE,
               ever_aborted |-> FALSE, v0 |-> version, base |-> model]

(***************************************************************************)
(* _validate_model_version                                                 *)
(***************************************************************************)
\* Variant: a lower version passes as the current one.
validate_model_version_lower_passes(request_model_version, ver) ==
    IF request_model_version > ver THEN "ValueError" ELSE "True"

\* Variant: a higher version is answered like a lower one, not raised.
validate_model_version_never_raises(request_model_version, ver) ==
    IF request_model_version = ver THEN "True" ELSE "False"

validate_model_version(request_model_version, ver) ==
    IF request_model_version > ver THEN "ValueError"
    ELSE IF request_model_version = ver THEN "True" ELSE "False"

(***************************************************************************)
(* ReportGradient: the sanity check (lines 326-370)                        *)
(***************************************************************************)
\* The check of one key; TRUE when the loop body raises ValueError.
\* Variant: the range of the indices is not checked.
key_raises_without_range(k, v, mdl) ==
    IF k \notin DOMAIN mdl
    THEN v.indices = <<>>
    ELSE LET arr == tensor_to_ndarray(v)
         IN IF arr.kind = "IndexedSlices"
            THEN Shape(arr.values)[2] # Shape(mdl[k])[2]
            ELSE Shape(arr.values) # Shape(mdl[k])

key_raises(k, v, mdl) ==
    IF k \notin DOMAIN mdl
    THEN v.indices = <<>>
    ELSE LET arr == tensor_to_ndarray(v)
         IN IF arr.kind = "IndexedSlices"
            THEN \/ Shape(arr.values)[2] # Shape(mdl[k])[2]
                 \/ reduce_max(arr.indices) >= Shape(mdl[k])[1]
            ELSE Shape(arr.values) # Shape(mdl[k])

sanity_check_raises(gradient, mdl) ==
    \E k \in DOMAIN gradient : key_raises(k, gradient[k], mdl)

\* The local dict edl_embedding_gradients after the loop.
local_edl_embedding_gradients(gradient, mdl) ==
    [k \in {x \in DOMAIN gradient :
                x \notin DOMAIN mdl /\ gradient[x].indices # <<>>}
        |-> tensor_to_ndarray(gradient[k])]

\* The local dict indexed_grads after the loop.
local_indexed_grads(gradient, mdl) ==
    [k \in {x \in DOMAIN gradient :
                x \in DOMAIN mdl /\ gradient[x].indices # <<>>}
        |-> tensor_to_ndarray(gradient[k])]

\* The local dict tmp after the loop.
local_tmp(gradient, mdl) ==
    [k \in {x \in DOMAIN gradient :
                x \in DOMAIN mdl /\ gradient[x].indices = <<>>}
        |-> tensor_to_ndarray(gradient[k]).values]

(***************************************************************************)
(* ReportGradient: accumulation (lines 372-396)                            *)
(***************************************************************************)
merge_slices_into(acc, new) ==
    [k \in DOMAIN acc \cup DOMAIN new |->
        IF k \notin DOMAIN new THEN acc[k]
        ELSE IF k \in DOMAIN acc THEN merge_indexed_slices(acc[k], new[k])
        ELSE new[k]]

\* Variant: a later dense gradient replaces the sum.
add_dense_into_replacing(acc, new) ==
    [k \in DOMAIN acc \cup DOMAIN new |->
        IF k \in DOMAIN new THEN new[k] ELSE acc[k]]

add_dense_into(acc, new) ==
    [k \in DOMAIN acc \cup DOMAIN new |->
        IF k \notin DOMAIN new THEN acc[k]
        ELSE IF k \in DOMAIN acc THEN MatAdd(acc[k], new[k])
        ELSE new[k]]

\* Variant: the update waits for one report more.
quorum_reached_late(n, to_wait) == n > to_wait

quorum_reached(n, to_wait) == n >= to_wait

(***************************************************************************)
(* _update_model (lines 169-229)                                           *)
(***************************************************************************)
normalize(sums, to_wait) == [k \in DOMAIN sums |-> MatDiv(sums[k], to_wait)]

\* Lines 179-181: the gradients of the indexed pairs of grad_var, which are
\* the accumulated slices as they are.
grad_var_indexed(indexed) == indexed

\* Embedding.get_key for every unique id of every layer.
lookup_keys(edl) ==
    UNION {{<<layer, edl[layer].indices[j]>> : j \in 1..Len(edl[layer].indices)} :
              layer \in DOMAIN edl}

unknown_keys(edl, st) == lookup_keys(edl) \ DOMAIN st

\* SGD with learning rate 1 on IndexedSlices: every (index, row) pair is
\* subtracted from its row, so rows of equal index add up.
RECURSIVE scatter_sub(_, _, _)
scatter_sub(var, indices, values) ==
    IF indices = <<>> THEN var
    ELSE scatter_sub([var EXCEPT ![indices[1] + 1] = RowSub(@, values[1])],
                     Tail(indices), Tail(values))

\* self._opt.apply_gradients on the pairs of the model's own variables:
\* the dense pairs first, then the indexed pairs.
apply_gradients(mdl, dense, indexed) ==
    [k \in DOMAIN mdl |->
        LET a == IF k \in DOMAIN dense THEN MatSub(mdl[k], dense[k]) ELSE mdl[k]
        IN IF k \in DOMAIN indexed
           THEN scatter_sub(a, indexed[k].indices, indexed[k].values)
           ELSE a]

\* The embedding variable built from the looked-up rows of one layer, after
\* the optimizer has applied the layer's gradients to it.
updated_embedding_var(layer, grads, st) ==
    LET uid == unique_ids(grads.indices)
        embedding_var == [i \in 1..Len(uid) |-> st[<<layer, uid[i]>>]]
    IN scatter_sub(embedding_var, unique_idx(grads.indices), grads.values)

\* _update_edl_embedding_table: the table after the upsert of every row.
update_edl_embedding_table(edl, st) ==
    [key \in DOMAIN st |->
        IF key \in lookup_keys(edl)
        THEN LET grads == edl[key[1]]
                 uid == unique_ids(grads.indices)
                 i == CHOOSE i \in 1..Len(uid) : uid[i] = key[2]
             IN updated_embedding_var(key[1], grads, st)[i]
        ELSE st[key]]

\* Variant: the version is incremented twice.
update_model_version_twice(ver) == ver + 2

\* _update_model_version
update_model_version(ver) == ver + 1

\* _get_model_no_lock
get_model_no_lock ==
    [kind |-> "Model", from |-> "live", version |-> version,
     param |-> [k \in DOMAIN model |-> ndarray_to_tensor(model[k])]]


(***************************************************************************)
(* Delivery of responses                                                   *)
(***************************************************************************)
\* A finished call is pending while its response has not been delivered.
\* Return touches only its own thread's request and response, which no
\* other step reads, so it is taken before any other step (every other
\* action waits for ~Delivering): this loses no state of the servicer.
Delivering == \E t \in Threads : pc[t] = "done"

(***************************************************************************)
(* ReportGradient (lines 305-406)                                          *)
(***************************************************************************)
\* Lines 306-318: the version check, made without the lock.
CallReportGradient(t) ==
    /\ pc[t] = "idle"
    /\ ~Delivering
    /\ calls < MaxCalls
    /\ calls' = calls + 1
    /\ seen' = [seen EXCEPT ![t] = version]
    /\ \E r \in GradientRequests :
          /\ req' = [req EXCEPT ![t] = [op |-> "ReportGradient",
                                        model_version |-> r[1],
                                        gradient |-> r[2]]]
          /\ LET model_version_valid == validate_model_version(r[1], version)
             IN CASE model_version_valid = "ValueError" ->
                       /\ pc' = [pc EXCEPT ![t] = "done"]
                       /\ res' = [res EXCEPT ![t] = Error("ValueError")]
                  [] model_version_valid = "False" ->
                       /\ pc' = [pc EXCEPT ![t] = "rg_stale"]
                       /\ UNCHANGED res
                  [] OTHER ->
                       /\ pc' = [pc EXCEPT ![t] = "rg_lock"]
                       /\ UNCHANGED res
    /\ UNCHANGED <<model, version, accumulator, grad_to_wait, lock, store,
                   checkpoints, updated, hist>>

\* Lines 316-318: the rejection, with the version read again.
RGStale(t) ==
    /\ pc[t] = "rg_stale"
    /\ ~Delivering
    /\ pc' = [pc EXCEPT ![t] = "done"]
    /\ res' = [res EXCEPT ![t] = [kind |-> "ReportGradientResponse",
                                  accepted |-> FALSE,
                                  model_version |-> version]]
    /\ UNCHANGED <<model, version, accumulator, grad_to_wait, lock, store,
                   checkpoints, req, seen, updated, calls, hist>>

\* Lines 321-399: under the lock, the sanity check, the accumulation and
\* the quorum test.  A ValueError leaves the with-block, which releases the
\* lock; so does the end of the block when the quorum is not reached.
RGAccumulate(t) ==
    /\ pc[t] = "rg_lock"
    /\ ~Delivering
    /\ lock = NoThread
    /\ LET g == req[t].gradient
       IN IF sanity_check_raises(g, model)
          THEN /\ pc' = [pc EXCEPT ![t] = "done"]
               /\ res' = [res EXCEPT ![t] = Error("ValueError")]
               /\ UNCHANGED <<accumulator, lock, hist>>
          ELSE /\ edl_embedding_gradients' =
                      merge_slices_into(edl_embedding_gradients,
                                        local_edl_embedding_gradients(g, model))
               /\ gradient_sum_indexed' =
                      merge_slices_into(gradient_sum_indexed,
                                        local_indexed_grads(g, model))
               /\ gradient_sum' =
                      add_dense_into(gradient_sum, local_tmp(g, model))
               /\ grad_n' = grad_n + 1
               /\ hist' = [hist EXCEPT
                             !.k = @ + 1,
                             !.n = @ + 1,
                             !.sum = HistAdd(@, ReportedDense(g))]
               /\ IF quorum_reached(grad_n + 1, grad_to_wait)
                  THEN /\ lock' = t
                       /\ pc' = [pc EXCEPT ![t] = "rg_update"]
                  ELSE /\ lock' = NoThread
                       /\ pc' = [pc EXCEPT ![t] = "rg_return"]
               /\ UNCHANGED res
    /\ UNCHANGED <<model, version, grad_to_wait, store, checkpoints, req,
                   seen, updated, calls>>

\* Lines 169-224 of _update_model: the dense sums are divided in place, the
\* external rows are looked up (an unknown key raises RuntimeError, which
\* leaves the with-block), the optimizer changes the variables and the
\* updated rows are written back to the external table.
RGUpdateModel(t) ==
    /\ pc[t] = "rg_update"
    /\ ~Delivering
    /\ lock = t
    /\ gradient_sum' = normalize(gradient_sum, grad_to_wait)
    /\ IF unknown_keys(edl_embedding_gradients, store) # {}
       THEN /\ lock' = NoThread
            /\ pc' = [pc EXCEPT ![t] = "done"]
            /\ res' = [res EXCEPT ![t] = Error("RuntimeError")]
            /\ hist' = [hist EXCEPT !.aborted = TRUE, !.ever_aborted = TRUE]
            /\ UNCHANGED <<model, store>>
       ELSE /\ model' = apply_gradients(model, gradient_sum',
                                        grad_var_indexed(gradient_sum_indexed))
            /\ store' = update_edl_embedding_table(edl_embedding_gradients, store)
            /\ pc' = [pc EXCEPT ![t] = "rg_commit"]
            /\ hist' = [hist EXCEPT !.base = model]
            /\ UNCHANGED <<lock, res>>
    /\ UNCHANGED <<version, gradient_sum_indexed, edl_embedding_gradients,
                   grad_n, grad_to_wait, checkpoints, req, seen, updated,
                   calls>>

\* Lines 225-229 of _update_model: the version is incremented and the
\* accumulator is cleared.
RGCommit(t) ==
    /\ pc[t] = "rg_commit"
    /\ ~Delivering
    /\ lock = t
    /\ version' = update_model_version(version)
    /\ gradient_sum' = EmptyMap
    /\ gradient_sum_indexed' = EmptyMap
    /\ edl_embedding_gradients' = EmptyMap
    /\ grad_n' = 0
    /\ updated' = [updated EXCEPT ![t] = TRUE]
    /\ hist' = [hist EXCEPT !.n = 0, !.sum = EmptyMap, !.aborted = FALSE,
                             !.base = model]
    /\ pc' = [pc EXCEPT ![t] = "rg_hooks"]
    /\ UNCHANGED <<model, grad_to_wait, lock, store, checkpoints, req, res,
                   seen, calls>>

\* save of the checkpoint service: the model is stored under its version,
\* in the place of what was stored under that version before.
save(saved, pb_model) ==
    {c \in saved : c.version # pb_model.version} \cup
    {[pb_model EXCEPT !.from = "checkpoint"]}

\* Lines 401-402, the hooks after the update, still under the lock.
\* _update_evaluation (269-273): the evaluation service returns or raises,
\* and nothing catches what it raises.  _update_checkpoint (275-280):
\* need_to_checkpoint answers no, answers yes or raises (uncaught); on yes
\* _save_checkpoint(locking=False) (234-253) snapshots the model and calls
\* save, and catches what save raises.  An uncaught exception leaves the
\* with-block, which releases the lock, and the call.
HookOutcomes ==
    {"evaluation_raises", "need_raises", "not_needed", "saved", "save_raises"}

RGHooks(t, outcome) ==
    /\ pc[t] = "rg_hooks"
    /\ ~Delivering
    /\ lock = t
    /\ lock' = NoThread
    /\ IF outcome \in {"evaluation_raises", "need_raises"}
       THEN /\ pc' = [pc EXCEPT ![t] = "done"]
            /\ res' = [res EXCEPT ![t] = Error("HookError")]
       ELSE /\ pc' = [pc EXCEPT ![t] = "rg_return"]
            /\ UNCHANGED res
    /\ checkpoints' =
           IF outcome = "saved"
           THEN save(checkpoints, get_model_no_lock)
           ELSE checkpoints
    /\ UNCHANGED <<model, version, accumulator, grad_to_wait, store, req,
                   seen, updated, calls, hist>>

\* Lines 404-406: the response, with the version read after the lock was
\* released.
RGReturn(t) ==
    /\ pc[t] = "rg_return"
    /\ ~Delivering
    /\ pc' = [pc EXCEPT ![t] = "done"]
    /\ res' = [res EXCEPT ![t] = [kind |-> "ReportGradientResponse",
                                  accepted |-> TRUE,
                                  model_version |-> version]]
    /\ UNCHANGED <<model, version, accumulator, grad_to_wait, lock, store,
                   checkpoints, req, seen, updated, calls, hist>>


(***************************************************************************)
(* GetModel (lines 117-139)                                                *)
(***************************************************************************)
\* Line 118: the version check, made without the lock.  With the method
\* MINIMUM the test of lines 120-123 is decided by its first operand, which
\* reads no shared state, so the call goes on to the lock at once.
CallGetModel(t) ==
    /\ pc[t] = "idle"
    /\ ~Delivering
    /\ calls < MaxCalls
    /\ calls' = calls + 1
    /\ seen' = [seen EXCEPT ![t] = version]
    /\ \E v \in RequestVersions, method \in Methods :
          /\ req' = [req EXCEPT ![t] = [op |-> "GetModel", version |-> v,
                                        method |-> method]]
          /\ IF validate_model_version(v, version) = "ValueError"
             THEN /\ pc' = [pc EXCEPT ![t] = "done"]
                  /\ res' = [res EXCEPT ![t] = Error("ValueError")]
             ELSE /\ pc' = [pc EXCEPT ![t] =
                             IF method = "MINIMUM" THEN "gm_lock"
                             ELSE "gm_check"]
                  /\ UNCHANGED res
    /\ UNCHANGED <<model, version, accumulator, grad_to_wait, lock, store,
                   checkpoints, updated, hist>>

\* Variant: an older version is answered from the live model as well.
reads_live_model_or_older(request, ver) ==
    request.method = "MINIMUM" \/ request.version <= ver

\* The test of lines 120-123, which reads self._version without the lock.
reads_live_model(request, ver) ==
    request.method = "MINIMUM" \/ request.version = ver

GMCheck(t) ==
    /\ pc[t] = "gm_check"
    /\ ~Delivering
    /\ pc' = [pc EXCEPT ![t] =
                 IF reads_live_model(req[t], version) THEN "gm_lock"
                 ELSE "gm_ckpt"]
    /\ UNCHANGED <<model, version, accumulator, grad_to_wait, lock, store,
                   checkpoints, req, res, seen, updated, calls, hist>>

\* Lines 124-126: the snapshot of the live model, under the lock.
GMSnapshot(t) ==
    /\ pc[t] = "gm_lock"
    /\ ~Delivering
    /\ lock = NoThread
    /\ pc' = [pc EXCEPT ![t] = "done"]
    /\ res' = [res EXCEPT ![t] = get_model_no_lock]
    /\ UNCHANGED <<model, version, accumulator, grad_to_wait, lock, store,
                   checkpoints, req, seen, updated, calls, hist>>

\* get_checkpoint_model of the checkpoint service: the model saved for the
\* version, or the empty protobuf Model when the lookup raises.
get_checkpoint_model(v, saved) ==
    IF \E c \in saved : c.version = v
    THEN CHOOSE c \in saved : c.version = v
    ELSE [kind |-> "Model", from |-> "empty", version |-> 0,
          param |-> EmptyMap]

\* Lines 128-139: the read of a fixed version from the checkpoints.
GMCheckpoint(t) ==
    /\ pc[t] = "gm_ckpt"
    /\ ~Delivering
    /\ pc' = [pc EXCEPT ![t] = "done"]
    /\ res' = [res EXCEPT ![t] = get_checkpoint_model(req[t].version, checkpoints)]
    /\ UNCHANGED <<model, version, accumulator, grad_to_wait, lock, store,
                   checkpoints, req, seen, updated, calls, hist>>

(***************************************************************************)
(* ReportVariable (lines 299-303)                                          *)
(***************************************************************************)
\* _init_model_from_tensor_dict
init_model_from_tensor_dict(tensor_dict) ==
    [k \in DOMAIN tensor_dict |-> tensor_to_ndarray(tensor_dict[k]).values]

ReportedVariables == {[k \in DOMAIN InitVars |-> ndarray_to_tensor(InitVars[k])]}

\* Variant: every report sets the variables.
model_after_report_any(mdl, variable) == init_model_from_tensor_dict(variable)

\* Lines 301-302: self._model after the report.
model_after_report(mdl, variable) ==
    IF mdl = EmptyMap THEN init_model_from_tensor_dict(variable) ELSE mdl

ReportVariable(t, variable) ==
    /\ pc[t] = "idle"
    /\ ~Delivering
    /\ calls < MaxCalls
    /\ lock = NoThread
    /\ calls' = calls + 1
    /\ req' = [req EXCEPT ![t] = [op |-> "ReportVariable", variable |-> variable]]
    /\ model' = model_after_report(model, variable)
    /\ hist' = [hist EXCEPT !.base = model']
    /\ pc' = [pc EXCEPT ![t] = "done"]
    /\ res' = [res EXCEPT ![t] = [kind |-> "Empty"]]
    /\ UNCHANGED <<version, accumulator, grad_to_wait, lock, store,
                   checkpoints, seen, updated>>

(***************************************************************************)
(* GetTask (lines 100-115)                                                 *)
(***************************************************************************)
\* Line 102: the version is read without the lock and put into the response
\* of a training task (or of no task).
GetTask(t) ==
    /\ pc[t] = "idle"
    /\ ~Delivering
    /\ calls < MaxCalls
    /\ calls' = calls + 1
    /\ req' = [req EXCEPT ![t] = [op |-> "GetTask"]]
    /\ seen' = [seen EXCEPT ![t] = version]
    /\ pc' = [pc EXCEPT ![t] = "done"]
    /\ res' = [res EXCEPT ![t] = [kind |-> "Task", model_version |-> version]]
    /\ UNCHANGED <<model, version, accumulator, grad_to_wait, lock, store,
                   checkpoints, updated, hist>>

(***************************************************************************)
(* _save_checkpoint and save_latest_checkpoint (lines 234-267)             *)
(***************************************************************************)
\* What the snapshot and the save of lines 241-244 do: they return, or one
\* of them raises.
SaveOutcomes == {"saved", "save_raises"}

\* _save_checkpoint(locking=True), called by a component of the master on
\* one of its threads.  The lock is acquired (line 240); after the save it
\* is released (line 247) and the saved version returned; an exception
\* goes to the handler of lines 249-253, which logs and returns None
\* without releasing.
save_checkpoint_locking(t, outcome) ==
    /\ pc[t] = "idle"
    /\ ~Delivering
    /\ calls < MaxCalls
    /\ lock = NoThread
    /\ calls' = calls + 1
    /\ req' = [req EXCEPT ![t] = [op |-> "save_checkpoint", locking |-> TRUE]]
    /\ seen' = [seen EXCEPT ![t] = version]
    /\ pc' = [pc EXCEPT ![t] = "done"]
    /\ IF outcome = "saved"
       THEN /\ checkpoints' = save(checkpoints, get_model_no_lock)
            /\ lock' = NoThread
            /\ res' = [res EXCEPT ![t] = [kind |-> "checkpoint_version",
                                          version |-> version]]
       ELSE /\ checkpoints' = checkpoints
            /\ lock' = t
            /\ res' = [res EXCEPT ![t] = [kind |-> "None"]]
    /\ UNCHANGED <<model, version, accumulator, grad_to_wait, store, updated,
                   hist>>

\* save_latest_checkpoint: _save_checkpoint(locking=False) snapshots the
\* model without the lock (lines 241-244) and catches what the save raises.
save_latest_checkpoint(t, outcome) ==
    /\ pc[t] = "idle"
    /\ ~Delivering
    /\ calls < MaxCalls
    /\ calls' = calls + 1
    /\ req' = [req EXCEPT ![t] = [op |-> "save_latest_checkpoint"]]
    /\ seen' = [seen EXCEPT ![t] = version]
    /\ pc' = [pc EXCEPT ![t] = "done"]
    /\ res' = [res EXCEPT ![t] = [kind |-> "None"]]
    /\ checkpoints' = IF outcome = "saved"
                      THEN save(checkpoints, get_model_no_lock)
                      ELSE checkpoints
    /\ UNCHANGED <<model, version, accumulator, grad_to_wait, lock, store,
                   updated, hist>>

(***************************************************************************)
(* The caller and the environment                                          *)
(***************************************************************************)
\* The handler thread has delivered its response and takes the next call.
Return(t) ==
    /\ pc[t] = "done"
    /\ pc' = [pc EXCEPT ![t] = "idle"]
    /\ req' = [req EXCEPT ![t] = NoRequest]
    /\ res' = [res EXCEPT ![t] = NoResponse]
    /\ seen' = [seen EXCEPT ![t] = 0]
    /\ updated' = [updated EXCEPT ![t] = FALSE]
    /\ UNCHANGED <<model, version, accumulator, grad_to_wait, lock, store,
                   checkpoints, calls, hist>>

\* A worker initializes a row of the external embedding table.
StoreInsert(key) ==
    /\ ~Delivering
    /\ key \notin DOMAIN store
    /\ store' = (key :> StoreRow) @@ store
    /\ UNCHANGED <<model, version, accumulator, grad_to_wait, lock,
                   checkpoints, pc, req, res, seen, updated, calls, hist>>

Next ==
    \/ \E t \in Threads : CallReportGradient(t)
    \/ \E t \in Threads : RGStale(t)
    \/ \E t \in Threads : RGAccumulate(t)
    \/ \E t \in Threads : RGUpdateModel(t)
    \/ \E t \in Threads : RGCommit(t)
    \/ \E t \in Threads, outcome \in HookOutcomes : RGHooks(t, outcome)
    \/ \E t \in Threads : RGReturn(t)
    \/ \E t \in Threads : CallGetModel(t)
    \/ \E t \in Threads : GMCheck(t)
    \/ \E t \in Threads : GMSnapshot(t)
    \/ \E t \in Threads : GMCheckpoint(t)
    \/ \E t \in Threads, variable \in ReportedVariables :
           ReportVariable(t, variable)
    \/ \E t \in Threads : GetTask(t)
    \/ \E t \in Threads, outcome \in SaveOutcomes :
           save_checkpoint_locking(t, outcome)
    \/ \E t \in Threads, outcome \in SaveOutcomes :
           save_latest_checkpoint(t, outcome)
    \/ \E t \in Threads : Return(t)
    \/ \E key \in StoreKeys : StoreInsert(key)

Spec == Init /\ [][Next]_vars


(***************************************************************************)
(* Properties                                                              *)
(***************************************************************************)
Accepted(r) == r.kind = "ReportGradientResponse" /\ r.accepted
Rejected(r) == r.kind = "ReportGradientResponse" /\ ~r.accepted

\* A gradient map that the specification's validation rejects: a dense
\* gradient for a name absent from the model, a dense gradient of another
\* shape than its variable, sparse rows of another width than the
\* variable's rows, or a sparse index beyond the variable's rows.
ReportIsInvalid(g, mdl) ==
    \E k \in DOMAIN g :
       \/ k \notin DOMAIN mdl /\ g[k].indices = <<>>
       \/ /\ k \in DOMAIN mdl
          /\ g[k].indices = <<>>
          /\ \/ Len(g[k].values) # Len(mdl[k])
             \/ Len(g[k].values[1]) # Len(mdl[k][1])
       \/ /\ k \in DOMAIN mdl
          /\ g[k].indices # <<>>
          /\ \/ Len(g[k].values[1]) # Len(mdl[k][1])
             \/ \E j \in 1..Len(g[k].indices) : g[k].indices[j] >= Len(mdl[k])

\* C1: every step of a ReportGradient call whose model_version is lower
\* than the version its check read leaves the three accumulator maps, the
\* contribution count, the model variables and the version unchanged, and
\* the call ends by returning accepted=false.
C1_StaleReportRejected ==
    [][\A t \in Threads :
          (/\ pc'[t] # pc[t]
           /\ req'[t].op = "ReportGradient"
           /\ req'[t].model_version < seen'[t]) =>
              /\ UNCHANGED <<accumulator, model, version>>
              /\ pc'[t] \in {"rg_stale", "done"}
              /\ pc'[t] = "done" => Rejected(res'[t])]_vars

\* A stale report was rejected while another report's contribution was
\* waiting in the accumulator.
C1_Witness ==
    \E t \in Threads :
       /\ pc[t] = "done"
       /\ req[t].op = "ReportGradient"
       /\ req[t].model_version < seen[t]
       /\ Rejected(res[t])
       /\ grad_n > 0
       /\ gradient_sum # EmptyMap

\* C2: the step in which an update attempt aborts on a missing external
\* embedding key leaves the contribution count and the three accumulator
\* maps as they were before the attempt.
C2_AbortKeepsAccumulator ==
    [][\A t \in Threads :
          (pc[t] = "rg_update" /\ pc'[t] = "done") =>
              UNCHANGED accumulator]_vars

\* C3: a ReportGradient call whose gradient map fails validation ends with
\* the error, adds nothing to any accumulator map, does not count, changes
\* neither model nor version, and leaves the lock free.
C3_InvalidReportFailsWhole ==
    [][\A t \in Threads :
          (/\ pc[t] = "rg_lock"
           /\ pc'[t] # pc[t]
           /\ ReportIsInvalid(req[t].gradient, model)) =>
              /\ UNCHANGED <<accumulator, model, version>>
              /\ lock' = NoThread
              /\ pc'[t] = "done"
              /\ res'[t] = Error("ValueError")]_vars

\* A report with a bad key next to a good one has failed while one
\* contribution was waiting in the accumulator.
C3_Witness ==
    \E t \in Threads :
       /\ pc[t] = "done"
       /\ req[t].op = "ReportGradient"
       /\ req[t].model_version = seen[t]
       /\ ReportIsInvalid(req[t].gradient, model)
       /\ res[t] = Error("ValueError")
       /\ grad_n = 1
       /\ lock = NoThread

\* C4: version and variables change only once the cycle holds grad_to_wait
\* reports; the update of a cycle of exactly grad_to_wait reports increases
\* the version by 1 and leaves every dense-only variable at its old value
\* minus the sum of the reported gradients divided by grad_to_wait.
C4_QuorumAppliesAverage ==
    [][/\ (version' # version \/ (model # EmptyMap /\ model' # model)) =>
              hist.n >= grad_to_wait
       /\ \A t \in Threads :
             (pc[t] = "rg_commit" /\ pc'[t] # pc[t] /\ hist.n = grad_to_wait) =>
                 /\ version' = version + 1
                 /\ \A k \in DOMAIN hist.sum \ DOMAIN gradient_sum_indexed :
                       model'[k] = MatSub(hist.base[k],
                                          MatDiv(hist.sum[k], grad_to_wait))]_vars

\* Reports of 1 and of 3 for "w" = 10 have been applied as 10 - (1+3)/2.
C4_Witness ==
    /\ ~hist.ever_aborted
    /\ hist.k = grad_to_wait
    /\ version = hist.v0 + 1
    /\ model # EmptyMap
    /\ model["w"] = <<<<Q(8)>>>>

\* C5: as long as no update has aborted, the reports taken into the
\* accumulator are exactly those applied by the committed updates
\* (grad_to_wait each) plus those waiting: outside an update the version is
\* the initial version plus floor(k / grad_to_wait), the count is
\* k mod grad_to_wait and the waiting dense sums are the sums of the
\* waiting reports; inside an update the count is grad_to_wait.
C5_NoContributionLost ==
    ~hist.ever_aborted =>
        IF \E t \in Threads : pc[t] \in {"rg_update", "rg_commit"}
        THEN /\ grad_n = grad_to_wait
             /\ hist.k % grad_to_wait = 0
             /\ version = hist.v0 + (hist.k \div grad_to_wait) - 1
        ELSE /\ grad_n = hist.k % grad_to_wait
             /\ version = hist.v0 + (hist.k \div grad_to_wait)
             /\ gradient_sum = hist.sum

\* Three reports of both threads: one update applied, one report waiting.
C5_Witness ==
    /\ ~hist.ever_aborted
    /\ hist.k = grad_to_wait + 1
    /\ version = hist.v0 + 1
    /\ grad_n = 1
    /\ lock = NoThread
    /\ gradient_sum # EmptyMap

\* C6: an aborted update attempt leaves version and variables unchanged,
\* and the update that succeeds after an abort increases the version by 1,
\* leaves every dense-only variable at its old value minus the sum of all
\* merged reports divided by grad_to_wait, and empties the accumulator.
C6_RetryAppliesMergedGradients ==
    [][\A t \in Threads :
          /\ (pc[t] = "rg_update" /\ pc'[t] = "done") =>
                 UNCHANGED <<version, model>>
          /\ (pc[t] = "rg_commit" /\ pc'[t] # pc[t] /\ hist.aborted) =>
                 /\ version' = version + 1
                 /\ \A k \in DOMAIN hist.sum \ DOMAIN gradient_sum_indexed :
                       model'[k] = MatSub(hist.base[k],
                                          MatDiv(hist.sum[k], grad_to_wait))
                 /\ gradient_sum' = EmptyMap
                 /\ gradient_sum_indexed' = EmptyMap
                 /\ edl_embedding_gradients' = EmptyMap
                 /\ grad_n' = 0]_vars

\* C7 as stated: a finished ReportGradient call was rejected only if its
\* model_version was lower than the version read, and with any other
\* model_version and valid gradients it returned accepted=true.
C7_RejectedOnlyWhenStale ==
    \A t \in Threads :
       (pc[t] = "done" /\ req[t].op = "ReportGradient") =>
           /\ Rejected(res[t]) => req[t].model_version < seen[t]
           /\ (/\ req[t].model_version >= seen[t]
               /\ ~ReportIsInvalid(req[t].gradient, model)) =>
                  Accepted(res[t])

\* C7 as amended: a response is accepted=false exactly when model_version
\* was lower than the version read; a higher model_version ends the call
\* with the version error and an untouched accumulator; a report of the
\* current version with valid gradients is counted and each of its keys is
\* put into its accumulator map.
C7_RejectedStaleRaisedAhead ==
    [][\A t \in Threads :
          (pc'[t] # pc[t] /\ req'[t].op = "ReportGradient") =>
              /\ (pc'[t] = "done" /\ res'[t].kind = "ReportGradientResponse") =>
                     (res'[t].accepted <=> req'[t].model_version >= seen'[t])
              /\ req'[t].model_version > seen'[t] =>
                     /\ pc'[t] = "done"
                     /\ res'[t] = Error("ValueError")
                     /\ UNCHANGED <<accumulator, model, version>>
              /\ (pc[t] = "rg_lock" /\ ~ReportIsInvalid(req[t].gradient, model)) =>
                     /\ grad_n' = grad_n + 1
                     /\ \A k \in DOMAIN req[t].gradient :
                           IF req[t].gradient[k].indices = <<>>
                           THEN k \in DOMAIN gradient_sum'
                           ELSE IF k \in DOMAIN model
                           THEN k \in DOMAIN gradient_sum_indexed'
                           ELSE k \in DOMAIN edl_embedding_gradients']_vars

\* A report ahead of the version has failed with the version error while
\* the contribution of an accepted report was waiting in the accumulator.
C7_Witness ==
    \E t \in Threads :
       /\ pc[t] = "done" /\ req[t].op = "ReportGradient"
       /\ req[t].model_version > seen[t]
       /\ res[t] = Error("ValueError")
       /\ grad_n = 1
       /\ hist.k = 1

\* C8: a ReportGradient call that committed an update returns accepted=true
\* with the lock released, whatever the hooks did.
C8_HookFailureDoesNotFailCall ==
    \A t \in Threads :
       (pc[t] = "done" /\ updated[t]) =>
           /\ Accepted(res[t])
           /\ res[t].model_version >= seen[t] + 1
           /\ lock # t

\* C9: a finished GetModel call of the FIXED method whose version was the
\* current one when checked returned the live model with that version.
C9_ExactReturnsRequestedVersion ==
    \A t \in Threads :
       (/\ pc[t] = "done"
        /\ req[t].op = "GetModel"
        /\ req[t].method = "FIXED"
        /\ req[t].version = seen[t]) =>
           /\ res[t].kind = "Model"
           /\ res[t].from = "live"
           /\ res[t].version = req[t].version

\* C10: a GetModel call whose version is higher than the version its check
\* read ends at the check with the version error, for either method: it
\* goes through no other step of the handler, and lock, checkpoints, model
\* and version are unchanged.
C10_AheadOfVersionFails ==
    [][\A t \in Threads :
          (/\ pc'[t] # pc[t]
           /\ req'[t].op = "GetModel"
           /\ req'[t].version > seen'[t]) =>
              /\ pc[t] = "idle"
              /\ pc'[t] = "done"
              /\ res'[t] = Error("ValueError")
              /\ UNCHANGED <<lock, checkpoints, model, version, accumulator>>]_vars

\* A MINIMUM GetModel call ahead of the version has failed while another
\* thread held the lock for an update.
C10_Witness ==
    \E t \in Threads :
       /\ pc[t] = "done" /\ req[t].op = "GetModel"
       /\ req[t].method = "MINIMUM" /\ req[t].version > seen[t]
       /\ res[t] = Error("ValueError")
       /\ lock \notin {NoThread, t}


\* C11: a ReportVariable call sets the variables to the reported ones when
\* the model is empty, leaves the names and the values of the variables as
\* they are when it is not, and changes neither the version nor the
\* accumulator.
C11_ReportVariableFirstWriterWins ==
    [][\A t \in Threads :
          (pc[t] = "idle" /\ pc'[t] = "done" /\ req'[t].op = "ReportVariable") =>
              /\ UNCHANGED <<version, accumulator>>
              /\ model # EmptyMap => model' = model
              /\ model = EmptyMap =>
                    /\ DOMAIN model' = DOMAIN req'[t].variable
                    /\ \A k \in DOMAIN model' :
                          model'[k] = req'[t].variable[k].values]_vars

\* A ReportVariable call has ended on a model that an update had moved away
\* from the reported values.
C11_Witness ==
    \E t \in Threads :
       /\ pc[t] = "done"
       /\ req[t].op = "ReportVariable"
       /\ version > hist.v0
       /\ \E k \in DOMAIN model : model[k] # req[t].variable[k].values

\* C12: a GetModel call of the FIXED method for a version lower than the
\* version its check read never takes the live snapshot: it ends with what
\* the checkpoint lookup gave for that version, or with the empty model
\* (version 0, no variables) when there is no such checkpoint, never with
\* an error.
C12_OlderFixedReadsCheckpoint ==
    [][\A t \in Threads :
          (/\ pc'[t] # pc[t]
           /\ req'[t].op = "GetModel"
           /\ req'[t].method = "FIXED"
           /\ req'[t].version < seen'[t]) =>
              /\ pc'[t] \in {"gm_check", "gm_ckpt", "done"}
              /\ pc'[t] = "done" =>
                    /\ res'[t].kind = "Model"
                    /\ res'[t].from # "live"
                    /\ IF \E c \in checkpoints : c.version = req'[t].version
                       THEN /\ res'[t] \in checkpoints
                            /\ res'[t].version = req'[t].version
                       ELSE /\ res'[t].version = 0
                            /\ res'[t].param = EmptyMap]_vars

\* A FIXED read of an older version has come back empty although a
\* checkpoint of another version was there.
C12_Witness ==
    \E t \in Threads :
       /\ pc[t] = "done"
       /\ req[t].op = "GetModel" /\ req[t].method = "FIXED"
       /\ req[t].version < seen[t]
       /\ res[t].kind = "Model" /\ res[t].version = 0 /\ res[t].param = EmptyMap
       /\ checkpoints # {}

\* C13: the version is a natural number in every state; a step changes it
\* only by adding 1, and only as the commit of an update, after the
\* point where it can abort, taken by the thread that holds the lock
\* before and after.
C13_VersionGrowsOnlyByUpdate ==
    [][/\ version \in Nat
       /\ version' \in Nat
       /\ version' # version =>
             /\ version' = version + 1
             /\ \E t \in Threads :
                   /\ lock = t /\ lock' = t
                   /\ pc[t] = "rg_commit" /\ pc'[t] = "rg_hooks"]_vars

\* The version has grown in a run in which an update had aborted before.
C13_Witness ==
    /\ version = hist.v0 + 1
    /\ hist.ever_aborted


\* A thread is inside _update_model between the optimizer's change of the
\* variables (line 215) and the increment of the version (line 225).
MidUpdate == \E u \in Threads : pc[u] = "rg_commit"

\* C14: no snapshot of version and variables is taken in the middle of an
\* update: neither a checkpoint that a step adds nor a live model that a
\* GetModel call returns pairs variables the optimizer has changed with a
\* version not yet incremented.
C14_SnapshotNeverTorn ==
    [][/\ \A c \in checkpoints' \ checkpoints : ~MidUpdate
       /\ \A t \in Threads :
             (/\ pc[t] # "done" /\ pc'[t] = "done"
              /\ res'[t].kind = "Model" /\ res'[t].from = "live") =>
                 ~MidUpdate]_vars


\* C15: in every state no key is in two of the three accumulator maps.
C15_AccumulatorKeysDisjoint ==
    /\ DOMAIN gradient_sum \cap DOMAIN gradient_sum_indexed = {}
    /\ DOMAIN gradient_sum \cap DOMAIN edl_embedding_gradients = {}
    /\ DOMAIN gradient_sum_indexed \cap DOMAIN edl_embedding_gradients = {}

\* C16: an update starts with the contribution count equal to the quorum
\* threshold, and while the lock is free the count is below the threshold.
C16_UpdateStartsAtThreshold ==
    /\ lock = NoThread => grad_n \in 0..(grad_to_wait - 1)
    /\ \A t \in Threads : pc[t] = "rg_update" => grad_n = grad_to_wait

\* C17: the hooks run once, after the commit of the update and before the
\* lock is released: the hooks' step is taken by the holder of the lock
\* whose call has committed, a checkpoint it saves has the incremented
\* version, and it releases the lock; the hooks are entered only from the
\* commit, which increments the version and resets the accumulator; an
\* aborted update saves nothing; and between the commit and the end of
\* the hooks no step of another thread accumulates, updates or takes a
\* snapshot of version and variables.
C17_HooksCloseTheUpdate ==
    [][\A t \in Threads :
          /\ (pc[t] = "rg_hooks" /\ pc'[t] # "rg_hooks") =>
                /\ updated[t]
                /\ lock = t /\ lock' = NoThread
                /\ UNCHANGED <<accumulator, model, version>>
                /\ \A c \in checkpoints' \ checkpoints : c.version = version
          /\ (pc[t] # "rg_hooks" /\ pc'[t] = "rg_hooks") =>
                /\ pc[t] = "rg_commit"
                /\ lock = t /\ lock' = t
                /\ version' = version + 1
                /\ grad_n' = 0
                /\ gradient_sum' = EmptyMap
                /\ gradient_sum_indexed' = EmptyMap
                /\ edl_embedding_gradients' = EmptyMap
          /\ (pc[t] = "rg_update" /\ pc'[t] = "done") =>
                checkpoints' = checkpoints
          /\ (pc[t] = "rg_hooks" /\ pc'[t] = pc[t]) =>
                /\ UNCHANGED <<accumulator, model, version>>
                /\ checkpoints' = checkpoints
                /\ \A u \in Threads :
                      (pc[u] # "done" /\ pc'[u] = "done") =>
                         ~(res'[u].kind = "Model" /\ res'[u].from = "live")]_vars

\* C18: the slices that an update hands to the optimizer for a variable of
\* the model have no index twice.
C18_IndexedHandedOverUnique ==
    [][\A t \in Threads :
          (pc[t] = "rg_update" /\ pc'[t] = "rg_commit") =>
              \A k \in DOMAIN grad_var_indexed(gradient_sum_indexed) :
                 LET ids == grad_var_indexed(gradient_sum_indexed)[k].indices
                 IN \A i, j \in 1..Len(ids) : i # j => ids[i] # ids[j]]_vars

\* C19: a report is added to the accumulator only while its model_version
\* is the version of the model.
C19_AccumulatedAtCurrentVersion ==
    [][\A t \in Threads :
          (pc[t] = "rg_lock" /\ pc'[t] # pc[t] /\ grad_n' = grad_n + 1) =>
              req[t].model_version = version]_vars

\* C20: when _save_checkpoint(locking=True) has returned, its caller does
\* not hold the lock.
C20_LockingSaveReleasesLock ==
    \A t \in Threads :
       (pc[t] = "done" /\ req[t].op = "save_checkpoint" /\ req[t].locking) =>
           lock # t

=====
